---- MODULE Spec2Model ----
(***************************************************************************)
(* Model of sfb1451/publication-parser: the input reader (read_input.py)   *)
(* and the identifier extraction, registry queries, candidate              *)
(* disambiguation and batch resolution loop (parsepapers.py).              *)
(*                                                                         *)
(* Text is modelled as a sequence of tokens.  A token stands for a run of  *)
(* characters that the regular expressions and the str methods of the      *)
(* code treat as a unit: "*", " ", "http", a plain word, or a run that one *)
(* of the identifier patterns matches.  Python values that may be a str, a *)
(* list or None are tagged records [t, v]; an exception is the field exc   *)
(* of an outcome record, "none" meaning a normal return.                   *)
(***************************************************************************)
EXTENDS Naturals, Sequences, FiniteSets, TLC

VARIABLES
  \* __main__ of parsepapers.py
  items,        \* items["INF"]: the entries the loop iterates
  idx,          \* number of loop iterations completed
  citations,    \* the output list
  calls,        \* HTTP requests issued so far (session.get calls)
  replies,      \* the response each completed iteration received
  pc,           \* "loop" | "done" | "raised"
  exc,          \* the exception that ended the loop, "none" otherwise
  raisedIn,     \* the function that raised it
  \* check_ratings applied to one candidate list
  cands, close, almost, rpc, rout,
  \* one registry operation applied to one response
  gop, gresp, gpc, gout,
  \* read_file
  f,            \* the lines of the file
  n,            \* number of lines consumed
  line_buffer, project, entries, fpc, fexc,
  flushed       \* history: <<project, buffer>> of every flush attempted

varsMain == <<items, idx, citations, calls, replies, pc, exc, raisedIn>>
varsRatings == <<cands, close, almost, rpc, rout>>
varsRegistry == <<gop, gresp, gpc, gout>>
varsRead == <<f, n, line_buffer, project, entries, fpc, fexc, flushed>>
vars == <<varsMain, varsRatings, varsRegistry, varsRead>>

\* ---------------------------------------------------------------- bounds

MaxEntries == 2
MaxCands == 3
MaxLines == 4

\* ------------------------------------------------------- Python values

None == "None"
PyNone == [t |-> "NoneType", v |-> <<>>]
PyStr(s) == [t |-> "str", v |-> <<s>>]
PyList(l) == [t |-> "list", v |-> l]
IsStr(x) == x.t = "str"
StrOf(x) == x.v[1]

RECURSIVE SeqsUpTo(_, _)
SeqsUpTo(S, k) ==
  IF k = 0 THEN {<<>>}
  ELSE LET shorter == SeqsUpTo(S, k - 1)
       IN shorter \cup {Append(s, e) : s \in {t \in shorter : Len(t) = k - 1}, e \in S}

\* ------------------------------------------------------------ str methods

RECURSIVE lstrip(_)
lstrip(s) == IF s # <<>> /\ Head(s) = " " THEN lstrip(Tail(s)) ELSE s

RECURSIVE rstrip(_)
rstrip(s) ==
  IF s # <<>> /\ s[Len(s)] = " " THEN rstrip(SubSeq(s, 1, Len(s) - 1)) ELSE s

strip(s) == rstrip(lstrip(s))

startswith(s, tok) == s # <<>> /\ Head(s) = tok

\* s.replace("*", "")
RECURSIVE replace_star(_)
replace_star(s) ==
  IF s = <<>> THEN <<>>
  ELSE IF Head(s) = "*" THEN replace_star(Tail(s))
  ELSE <<Head(s)>> \o replace_star(Tail(s))

\* --------------------------------------------------------------- Entry

Entry(citation, url, comment) ==
  [citation |-> citation, url |-> url, comment |-> comment]

\* Entry(buf): the single positional argument is the buffer itself, a list
Entry1(buf) == Entry(PyList(buf), PyNone, PyNone)

process_buffer(buf) ==
  IF Len(buf) = 1 THEN [exc |-> "none", entry |-> Entry1(buf)]
  ELSE IF Len(buf) = 2 THEN
    IF startswith(buf[2], "http")
    THEN [exc |-> "none", entry |-> Entry(PyStr(buf[1]), PyStr(buf[2]), PyNone)]
    ELSE [exc |-> "none", entry |-> Entry(PyStr(buf[1]), PyNone, PyStr(buf[2]))]
  ELSE IF Len(buf) = 3 THEN
    IF startswith(buf[2], "http") /\ ~startswith(buf[3], "http")
    THEN [exc |-> "none",
          entry |-> Entry(PyStr(buf[1]), PyStr(buf[2]), PyStr(buf[3]))]
    ELSE IF startswith(buf[3], "http") /\ ~startswith(buf[2], "http")
    THEN [exc |-> "none",
          entry |-> Entry(PyStr(buf[1]), PyStr(buf[3]), PyStr(buf[2]))]
    ELSE [exc |-> "ValueError", entry |-> Entry(PyNone, PyNone, PyNone)]
  ELSE [exc |-> "ValueError", entry |-> Entry(PyNone, PyNone, PyNone)]

\* -------------------------------------------------- identifier extraction

IdTypes == <<"doi", "pmid", "pmcid">>

\* patterns of find_id: group(1) of the pattern of idtype on one token
CitationPattern(tok, idtype) ==
  CASE idtype = "pmid" /\ tok = "PMID: 11" -> "11"
    [] idtype = "doi" /\ tok = "doi: 10.1/a" -> "10.1/a"
    [] idtype = "doi" /\ tok = "doi.org/10.1/a." -> "10.1/a"
    [] idtype = "pmcid" /\ tok = "PMCID: PMC22" -> "PMC22"
    [] OTHER -> None

\* patterns of id_from_url: group(1) of the first pattern of idtype that matches
UrlPattern(tok, idtype) ==
  CASE idtype = "pmid" /\ tok = "://pubmed.ncbi.nlm.nih.gov/11" -> "11"
    [] idtype = "pmcid" /\ tok = "://ncbi.nlm.nih.gov/pmc/articles/PMC22" -> "22"
    [] idtype = "doi" /\ tok = "://link.springer.com/article/10.1/s1" -> "10.1/s1"
    [] OTHER -> None

\* group(1) of the patterns of one of the two tables on one token
PatternGroup(table, tok, idtype) ==
  IF table = "find_id" THEN CitationPattern(tok, idtype) ELSE UrlPattern(tok, idtype)

\* re.search(pat, s): the leftmost match
RECURSIVE search(_, _, _)
search(table, s, idtype) ==
  IF s = <<>> THEN None
  ELSE IF PatternGroup(table, Head(s), idtype) # None
  THEN PatternGroup(table, Head(s), idtype)
  ELSE search(table, Tail(s), idtype)

\* re.search raises TypeError on an argument that is no str
find_id(citation_text, idtype) ==
  IF ~IsStr(citation_text) THEN [exc |-> "TypeError", ret |-> None]
  ELSE [exc |-> "none", ret |-> search("find_id", StrOf(citation_text), idtype)]

id_from_url(s, idtype) ==
  IF ~IsStr(s) THEN [exc |-> "TypeError", ret |-> None]
  ELSE [exc |-> "none", ret |-> search("id_from_url", StrOf(s), idtype)]

NoIds == [doi |-> None, pmid |-> None, pmcid |-> None]

\* one pass of the loop body of get_identifiers
identifier_of(entry, id_) ==
  LET c == find_id(entry.citation, id_)
  IN IF c.exc # "none" \/ c.ret # None THEN c ELSE id_from_url(entry.url, id_)

RECURSIVE get_identifiers_from(_, _, _)
get_identifiers_from(entry, k, identifiers) ==
  IF k > Len(IdTypes) THEN [exc |-> "none", ret |-> identifiers]
  ELSE LET r == identifier_of(entry, IdTypes[k])
       IN IF r.exc # "none" THEN [exc |-> r.exc, ret |-> NoIds]
          ELSE get_identifiers_from(entry, k + 1,
                                    [identifiers EXCEPT ![IdTypes[k]] = r.ret])

get_identifiers(entry) == get_identifiers_from(entry, 1, NoIds)

\* ------------------------------------------------------------ JSON objects

\* A JSON object, by the keys the code reads and an identity.  "subtype"
\* and "status" are read through dict.get, a missing key reading as None;
\* "type" and "score" are subscripted and every work the registry lists
\* carries them.
Obj(key, type, subtype, score, status) ==
  [key |-> key, type |-> type, subtype |-> subtype, score |-> score,
   status |-> status]

\* Python's None where a JSON object may stand
NoneObj == Obj(None, None, None, 0, None)

\* ----------------------------------------------------------- check_ratings

\* default thresholds, in hundredths
DefaultClose == 75
DefaultAlmost == 90

NoRating == [exc |-> "none", ret |-> NoneObj, at |-> 0]

\* similarity = scores[1] / scores[0], compared in exact arithmetic; the
\* thresholds are hundredths.  Called only with a non-zero divisor.
SimilarityAbove(s_items, threshold) ==
  s_items[2].score * 100 > threshold * s_items[1].score

\* the comparison of SimilarityAtLeast made strict
SimilarityAtLeastStrict(s_items, threshold) ==
  s_items[2].score * 100 > threshold * s_items[1].score

SimilarityAtLeast(s_items, threshold) ==
  s_items[2].score * 100 >= threshold * s_items[1].score

\* check_ratings_from that drops one peer review and takes the next item
\* without looking at the rest of the list again
RECURSIVE check_ratings_discard_once(_, _, _, _)
check_ratings_discard_once(c_items, c_close, c_almost, discarded) ==
  IF Len(c_items) < 2 THEN
    IF c_items = <<>>
    THEN [exc |-> "IndexError", ret |-> NoneObj, at |-> 0]
    ELSE [exc |-> "none", ret |-> c_items[1], at |-> discarded + 1]
  ELSE IF c_items[1].score = 0
  THEN [exc |-> "ZeroDivisionError", ret |-> NoneObj, at |-> 0]
  ELSE IF SimilarityAbove(c_items, c_close) /\ c_items[1].type = "peer-review"
  THEN [exc |-> "none", ret |-> c_items[2], at |-> discarded + 2]
  ELSE IF /\ SimilarityAtLeast(c_items, c_almost)
          /\ c_items[1].subtype = "preprint"
          /\ c_items[2].type = "journal-article"
  THEN [exc |-> "none", ret |-> c_items[2], at |-> discarded + 2]
  ELSE [exc |-> "none", ret |-> c_items[1], at |-> discarded + 1]

\* check_ratings_from that returns None for a list with no item
RECURSIVE check_ratings_none_if_empty(_, _, _, _)
check_ratings_none_if_empty(c_items, c_close, c_almost, discarded) ==
  IF Len(c_items) < 2 THEN
    IF c_items = <<>>
    THEN [exc |-> "none", ret |-> NoneObj, at |-> 0]
    ELSE [exc |-> "none", ret |-> c_items[1], at |-> discarded + 1]
  ELSE IF c_items[1].score = 0
  THEN [exc |-> "ZeroDivisionError", ret |-> NoneObj, at |-> 0]
  ELSE IF SimilarityAbove(c_items, c_close) /\ c_items[1].type = "peer-review"
  THEN check_ratings_none_if_empty(Tail(c_items), c_close, c_almost, discarded + 1)
  ELSE IF /\ SimilarityAtLeast(c_items, c_almost)
          /\ c_items[1].subtype = "preprint"
          /\ c_items[2].type = "journal-article"
  THEN [exc |-> "none", ret |-> c_items[2], at |-> discarded + 2]
  ELSE [exc |-> "none", ret |-> c_items[1], at |-> discarded + 1]

\* The field at of the result is the position of the returned item in the
\* list the outermost call was given (0 when nothing is returned).
RECURSIVE check_ratings_from(_, _, _, _)
check_ratings_from(c_items, c_close, c_almost, discarded) ==
  IF Len(c_items) < 2 THEN
    IF c_items = <<>>
    THEN [exc |-> "IndexError", ret |-> NoneObj, at |-> 0]
    ELSE [exc |-> "none", ret |-> c_items[1], at |-> discarded + 1]
  ELSE IF c_items[1].score = 0
  THEN [exc |-> "ZeroDivisionError", ret |-> NoneObj, at |-> 0]
  ELSE IF SimilarityAbove(c_items, c_close) /\ c_items[1].type = "peer-review"
  THEN check_ratings_from(Tail(c_items), c_close, c_almost, discarded + 1)
  ELSE IF /\ SimilarityAtLeast(c_items, c_almost)
          /\ c_items[1].subtype = "preprint"
          /\ c_items[2].type = "journal-article"
  THEN [exc |-> "none", ret |-> c_items[2], at |-> discarded + 2]
  ELSE [exc |-> "none", ret |-> c_items[1], at |-> discarded + 1]

check_ratings(c_items, c_close, c_almost) ==
  check_ratings_from(c_items, c_close, c_almost, 0)

\* ------------------------------------------------------------- HTTP layer

\* rows requested from the bibliographic search
Rows == 3

\* A response of session.get.  net: the transport delivered a response
\* (otherwise session.get raises); ok: r.ok; json: the body decodes
\* (otherwise r.json() raises); doc: the decoded body as a CSL object;
\* records: its "records" list; message: its "message" object; items:
\* the "items" list of the message.  has* say whether the key is there.
Response(net, ok, json, doc, hasR, recs, hasM, msg, hasI, its) ==
  [net |-> net, ok |-> ok, json |-> json, doc |-> doc,
   hasRecords |-> hasR, records |-> recs,
   hasMessage |-> hasM, message |-> msg,
   hasItems |-> hasI, items |-> its]

NoResponse ==
  Response(FALSE, FALSE, FALSE, NoneObj, FALSE, <<>>, FALSE, NoneObj, FALSE, <<>>)

\* a request, by what the registry sees of it
Request(op, db, id_, query, rows) ==
  [op |-> op, db |-> db, id |-> id_, query |-> query, rows |-> rows]

Returned(x) == [exc |-> "none", ret |-> x]
Raised(e) == [exc |-> e, ret |-> NoneObj]

\* requests encodes a params value: a str as itself, any other iterable as
\* one value per element, leaving out the elements that are None
RECURSIVE encode_fields(_)
encode_fields(fields) ==
  IF fields = <<>> THEN <<>>
  ELSE (IF IsStr(Head(fields)) THEN <<StrOf(Head(fields))>> ELSE <<>>)
       \o encode_fields(Tail(fields))

encode_param(value) ==
  IF value.t = "Entry"
  THEN encode_fields(<<value.v.citation, value.v.url, value.v.comment>>)
  ELSE value.v

PyEntry(entry) == [t |-> "Entry", v |-> entry]

\* -------------------------------------------------------- registry queries

query_pubmed_ctxp(r, id_, db) ==
  IF ~r.net THEN Raised("ConnectionError")
  ELSE IF ~r.json THEN Raised("JSONDecodeError")   \* pprint(r.json())
  ELSE IF r.ok THEN Returned(r.doc)
  ELSE Returned(NoneObj)

query_pubmed_idconv(r, id_, email) ==
  IF ~r.net THEN Raised("ConnectionError")
  ELSE IF ~r.json THEN Raised("JSONDecodeError")
  ELSE IF ~r.hasRecords THEN Raised("TypeError")    \* None[0]
  ELSE IF r.records = <<>> THEN Raised("IndexError")
  ELSE IF r.records[1].status = "error" THEN Returned(NoneObj)
  ELSE Returned(r.records[1])

query_crossref(r, doi, email) ==
  IF ~r.net THEN Raised("ConnectionError")
  ELSE IF ~r.ok THEN Returned(NoneObj)
  ELSE IF ~r.json THEN Raised("JSONDecodeError")
  ELSE IF r.hasMessage THEN Returned(r.message)
  ELSE Returned(NoneObj)

query_crossref_bibliographic(r, citation, email) ==
  IF ~r.net THEN Raised("ConnectionError")
  ELSE IF ~r.ok THEN Returned(NoneObj)
  ELSE IF ~r.json THEN Raised("JSONDecodeError")
  ELSE IF ~r.hasMessage THEN Raised("AttributeError")  \* None.get("items")
  ELSE IF ~r.hasItems THEN Raised("TypeError")         \* len(None)
  ELSE LET best == check_ratings(r.items, DefaultClose, DefaultAlmost)
       IN [exc |-> best.exc, ret |-> best.ret]

query_doi_org(r, doi, useragent) ==
  IF ~r.net THEN Raised("ConnectionError")
  ELSE IF ~r.ok THEN Returned(NoneObj)
  ELSE IF ~r.json THEN Raised("JSONDecodeError")
  ELSE Returned(r.doc)

\* the request each query sends
request_pubmed_ctxp(id_, db) == Request("query_pubmed_ctxp", db, id_, <<>>, 0)
request_doi_org(doi) == Request("query_doi_org", None, doi, <<>>, 0)
request_crossref_bibliographic(citation) ==
  Request("query_crossref_bibliographic", None, None, encode_param(citation), Rows)

\* ---------------------------------------------------- the resolution loop

Outcome(e, where, sent, ret) ==
  [exc |-> e, raisedIn |-> where, sent |-> sent, ret |-> ret]

\* the call the loop body makes once the identifiers are known
selected_request(item, identifiers) ==
  IF identifiers.pmid # None THEN request_pubmed_ctxp(identifiers.pmid, "pubmed")
  ELSE IF identifiers.pmcid # None THEN request_pubmed_ctxp(identifiers.pmcid, "pmc")
  ELSE IF identifiers.doi # None THEN request_doi_org(identifiers.doi)
  ELSE request_crossref_bibliographic(PyEntry(item))

selected_query(item, identifiers, r) ==
  IF identifiers.pmid # None THEN query_pubmed_ctxp(r, identifiers.pmid, "pubmed")
  ELSE IF identifiers.pmcid # None THEN query_pubmed_ctxp(r, identifiers.pmcid, "pmc")
  ELSE IF identifiers.doi # None THEN query_doi_org(r, identifiers.doi, "useragent")
  ELSE query_crossref_bibliographic(r, PyEntry(item), "email")

\* one pass of the loop body on item, the registry answering r
resolve(item, r) ==
  LET identifiers == get_identifiers(item)
  IN IF identifiers.exc # "none"
     THEN Outcome(identifiers.exc, "get_identifiers", <<>>, NoneObj)
     ELSE LET req == selected_request(item, identifiers.ret)
              q == selected_query(item, identifiers.ret, r)
          IN Outcome(q.exc, IF q.exc = "none" THEN None ELSE req.op, <<req>>, q.ret)

\* ------------------------------------------------------------ the inputs

Word == "w"
CiteNone == <<Word>>
CitePmidDoi == <<Word, "PMID: 11", "doi: 10.1/a">>
CiteAll == <<Word, "doi: 10.1/a", "PMID: 11", "PMCID: PMC22">>
CiteDoi == <<Word, "doi.org/10.1/a.">>
CitePmcidDoi == <<Word, "PMCID: PMC22", "doi: 10.1/a">>
UrlOther == <<"http", "://example.org">>
UrlPmc == <<"http", "://ncbi.nlm.nih.gov/pmc/articles/PMC22">>
UrlPubmed == <<"http", "://pubmed.ncbi.nlm.nih.gov/11">>
Comment == <<"note">>

Buffers ==
  { <<CiteNone>>, <<CitePmidDoi, Comment>>, <<CiteAll, Comment>>,
    <<CitePmidDoi, UrlOther>>, <<CiteNone, UrlPmc>>, <<CitePmcidDoi, UrlOther>>,
    <<CiteDoi, UrlOther>>, <<CiteNone, UrlOther>>,
    <<CiteNone, Comment, UrlPubmed>>, <<CiteNone, UrlOther, Comment>> }

\* what read_file can put into items["INF"]
Entries == {process_buffer(buf).entry : buf \in Buffers}

\* the CSL object a registry holds for a request
DocOf(req) == Obj(req.id, "journal-article", None, 0, None)

Article == Obj("article", "journal-article", None, 9, None)
Preprint == Obj("preprint", "posted-content", "preprint", 10, None)
Review == Obj("review", "peer-review", None, 10, None)

SearchLists == { <<>>, <<Article>>, <<Preprint, Article>>, <<Review, Preprint, Article>> }

Delivered(ok, json, doc) ==
  Response(TRUE, ok, json, doc, FALSE, <<>>, FALSE, NoneObj, FALSE, <<>>)

PlainResponses(doc) ==
  {NoResponse} \cup {Delivered(ok, json, doc) : ok \in BOOLEAN, json \in BOOLEAN}

SearchResponses ==
  {NoResponse, Delivered(FALSE, TRUE, NoneObj), Delivered(TRUE, FALSE, NoneObj),
   Delivered(TRUE, TRUE, NoneObj),
   Response(TRUE, TRUE, TRUE, NoneObj, FALSE, <<>>, TRUE, NoneObj, FALSE, <<>>)}
  \cup {Response(TRUE, TRUE, TRUE, NoneObj, FALSE, <<>>, TRUE, NoneObj, TRUE, l) :
          l \in SearchLists}

\* the responses the registries may give to the request of item
ResponsesTo(item) ==
  LET identifiers == get_identifiers(item)
  IN IF identifiers.exc # "none" THEN {NoResponse}
     ELSE LET req == selected_request(item, identifiers.ret)
          IN IF req.op = "query_crossref_bibliographic" THEN SearchResponses
             ELSE PlainResponses(DocOf(req))

\* ------------------------------------------------------------ idle parts

IdleMain ==
  /\ items = <<>> /\ idx = 0 /\ citations = <<>> /\ calls = <<>>
  /\ replies = <<>> /\ pc = "idle" /\ exc = "none" /\ raisedIn = None

IdleRatings ==
  /\ cands = <<>> /\ close = DefaultClose /\ almost = DefaultAlmost
  /\ rpc = "idle" /\ rout = NoRating

IdleRegistry ==
  /\ gop = None /\ gresp = NoResponse /\ gpc = "idle" /\ gout = Returned(NoneObj)

IdleRead ==
  /\ f = <<>> /\ n = 0 /\ line_buffer = <<>> /\ project = PyNone
  /\ entries = <<>> /\ fpc = "idle" /\ fexc = "none" /\ flushed = <<>>

\* ------------------------------------------------------- __main__ actions

Init ==
  /\ items \in SeqsUpTo(Entries, MaxEntries)
  /\ idx = 0 /\ citations = <<>> /\ calls = <<>> /\ replies = <<>>
  /\ pc = "loop" /\ exc = "none" /\ raisedIn = None
  /\ IdleRatings /\ IdleRegistry /\ IdleRead

\* Iterate with a loop body that appends only the results that are not None
IterateDropAbsent ==
  /\ pc = "loop" /\ idx < Len(items)
  /\ \E r \in ResponsesTo(items[idx + 1]) :
       LET out == resolve(items[idx + 1], r)
       IN /\ calls' = calls \o out.sent
          /\ IF out.exc = "none"
             THEN /\ citations' = IF out.ret = NoneObj THEN citations
                                  ELSE Append(citations, out.ret)
                  /\ replies' = Append(replies, r)
                  /\ idx' = idx + 1
                  /\ UNCHANGED <<pc, exc, raisedIn>>
             ELSE /\ pc' = "raised" /\ exc' = out.exc /\ raisedIn' = out.raisedIn
                  /\ UNCHANGED <<citations, replies, idx>>
  /\ UNCHANGED <<items, varsRatings, varsRegistry, varsRead>>

\* one iteration of "for item in items["INF"]"
Iterate ==
  /\ pc = "loop" /\ idx < Len(items)
  /\ \E r \in ResponsesTo(items[idx + 1]) :
       LET out == resolve(items[idx + 1], r)
       IN /\ calls' = calls \o out.sent
          /\ IF out.exc = "none"
             THEN /\ citations' = Append(citations, out.ret)
                  /\ replies' = Append(replies, r)
                  /\ idx' = idx + 1
                  /\ UNCHANGED <<pc, exc, raisedIn>>
             ELSE /\ pc' = "raised" /\ exc' = out.exc /\ raisedIn' = out.raisedIn
                  /\ UNCHANGED <<citations, replies, idx>>
  /\ UNCHANGED <<items, varsRatings, varsRegistry, varsRead>>

\* the loop ends; the citations go to the template
Finish ==
  /\ pc = "loop" /\ idx = Len(items)
  /\ pc' = "done"
  /\ UNCHANGED <<items, idx, citations, calls, replies, exc, raisedIn,
                 varsRatings, varsRegistry, varsRead>>

Next == Iterate \/ Finish

Spec == Init /\ [][Next]_vars

\* ------------------------------------------------- claims on the loop

\* the entries the loop has taken up: those completed, and the one it raised in
Taken == idx + (IF pc = "raised" THEN 1 ELSE 0)

\* the text of an entry field, whatever Python type holds it
TextOf(x) == IF x.v = <<>> THEN <<>> ELSE x.v[1]

\* the citation text or the URL of the entry bears an identifier of the kind
Bears(item, idtype) ==
  \/ \E i \in 1..Len(TextOf(item.citation)) :
       CitationPattern(TextOf(item.citation)[i], idtype) # None
  \/ \E i \in 1..Len(TextOf(item.url)) :
       UrlPattern(TextOf(item.url)[i], idtype) # None

ExpectedOp(item) ==
  IF Bears(item, "pmid") THEN <<"query_pubmed_ctxp", "pubmed">>
  ELSE IF Bears(item, "pmcid") THEN <<"query_pubmed_ctxp", "pmc">>
  ELSE IF Bears(item, "doi") THEN <<"query_doi_org", None>>
  ELSE <<"query_crossref_bibliographic", None>>

\* C1: every entry the loop takes up gets exactly one registry request, the
\* one of the first identifier it bears in the order PMID, PMCID, DOI, none;
\* an entry bearing a PMID never gets the doi.org request.
C1_OneRequestByPriority ==
  /\ Len(calls) = Taken
  /\ \A i \in 1..Len(calls) :
       /\ <<calls[i].op, calls[i].db>> = ExpectedOp(items[i])
       /\ Bears(items[i], "pmid") => calls[i].op # "query_doi_org"

\* The order of the branches alone: whenever a request was sent for an
\* entry, it is the one of the first identifier the entry bears.
SelectionOrder ==
  /\ Len(calls) <= Taken
  /\ \A i \in 1..Len(calls) : <<calls[i].op, calls[i].db>> = ExpectedOp(items[i])

\* C2: after k entries the output has k elements, element i being the result
\* of entry i, an absent result included as a placeholder at its position.
C2_OutputAligned ==
  /\ Len(citations) = idx
  /\ Len(replies) = idx
  /\ \A i \in 1..idx :
       /\ resolve(items[i], replies[i]).exc = "none"
       /\ citations[i] = resolve(items[i], replies[i]).ret

\* an absent result in the first position, a record after it
C2_Witness ==
  /\ pc = "done" /\ idx = 2
  /\ citations[1] = NoneObj /\ citations[2] # NoneObj
  /\ ~replies[1].ok

\* C3: the loop never aborts: whatever one entry's resolution meets (a
\* non-success status, a body that is not the expected JSON, a search without
\* candidates, an entry without URL), the loop goes on to the later entries
\* and reaches the end of the input.  A transport that delivers no response
\* at all is left aside.
C3_NeverAborts == pc = "raised" => exc = "ConnectionError"

\* C5: get_identifiers raises for no entry.
C5_ExtractionNeverFails == raisedIn # "get_identifiers"

\* C9: the bibliographic search is sent the entry's citation text alone, with
\* at most 3 rows, and an entry without identifiers whose request is sent
\* gets the search.
C9_SearchByCitationText ==
  \A i \in 1..Len(calls) :
    /\ (\A k \in {"pmid", "pmcid", "doi"} : ~Bears(items[i], k))
         => calls[i].op = "query_crossref_bibliographic"
    /\ calls[i].op = "query_crossref_bibliographic"
         => /\ calls[i].query = <<TextOf(items[i].citation)>>
            /\ calls[i].rows <= 3

\* ------------------------------------------- check_ratings on its own

Scores == {0, 9, 10, 12}

Candidates ==
  {Obj(None, k[1], k[2], sc, None) :
     k \in {<<"journal-article", None>>, <<"posted-content", "preprint">>,
            <<"peer-review", None>>, <<"peer-review", "preprint">>},
     sc \in Scores}

\* <<close, almost>>, in hundredths: the defaults and two other settings
Thresholds == {<<DefaultClose, DefaultAlmost>>, <<85, 95>>, <<95, 90>>}

InitRatings ==
  /\ cands \in SeqsUpTo(Candidates, MaxCands)
  /\ \E th \in Thresholds : close = th[1] /\ almost = th[2]
  /\ rpc = "call" /\ rout = NoRating
  /\ IdleMain /\ IdleRegistry /\ IdleRead

CallCheckRatings ==
  /\ rpc = "call"
  /\ rout' = check_ratings(cands, close, almost)
  /\ rpc' = "return"
  /\ UNCHANGED <<cands, close, almost, varsMain, varsRegistry, varsRead>>

NextRatings == CallCheckRatings

SpecRatings == InitRatings /\ [][NextRatings]_vars

\* --------------------------------------- the registry queries on their own

Record(status) == Obj("record", None, None, 0, status)

RegistryResponses ==
  {NoResponse} \cup
  {Response(TRUE, ok, json, Article, rec[1], rec[2], msg[1], Article, msg[2], msg[3]) :
     ok \in BOOLEAN, json \in BOOLEAN,
     rec \in {<<FALSE, <<>> >>, <<TRUE, <<>> >>, <<TRUE, <<Record(None)>> >>,
              <<TRUE, <<Record("error")>> >>},
     msg \in {<<FALSE, FALSE, <<>> >>, <<TRUE, FALSE, <<>> >>}
             \cup {<<TRUE, TRUE, l>> : l \in SearchLists}}

RegistryOps ==
  {"query_pubmed_ctxp", "query_pubmed_idconv", "query_crossref",
   "query_crossref_bibliographic", "query_doi_org"}

InitRegistry ==
  /\ gop \in RegistryOps
  /\ gresp \in RegistryResponses
  /\ gpc = "call" /\ gout = Returned(NoneObj)
  /\ IdleMain /\ IdleRatings /\ IdleRead

Return(out) ==
  /\ gpc = "call"
  /\ gout' = out
  /\ gpc' = "return"
  /\ UNCHANGED <<gop, gresp, varsMain, varsRatings, varsRead>>

CallPubmedCtxp ==
  gop = "query_pubmed_ctxp" /\ Return(query_pubmed_ctxp(gresp, "11", "pubmed"))

CallPubmedIdconv ==
  gop = "query_pubmed_idconv" /\ Return(query_pubmed_idconv(gresp, "11", "email"))

CallCrossref ==
  gop = "query_crossref" /\ Return(query_crossref(gresp, "10.1/a", "email"))

CallCrossrefBibliographic ==
  /\ gop = "query_crossref_bibliographic"
  /\ Return(query_crossref_bibliographic(gresp, PyStr(CiteNone), "email"))

CallDoiOrg ==
  gop = "query_doi_org" /\ Return(query_doi_org(gresp, "10.1/a", "useragent"))

NextRegistry ==
  \/ CallPubmedCtxp \/ CallPubmedIdconv \/ CallCrossref
  \/ CallCrossrefBibliographic \/ CallDoiOrg

SpecRegistry == InitRegistry /\ [][NextRegistry]_vars

\* ---------------------------------------------------------------- read_file

\* lines of the file, before line.strip()
Lines ==
  { <<>>, <<" ">>, <<"*", " ", "A">>, <<"*", "B", "*">>, <<Word, " ">>,
    <<"http", "://example.org">> }

HasKey(dict, key) == key \in DOMAIN dict

\* entries[project].append(process_buffer(line_buffer, n)): the subscript
\* is evaluated first, then the argument, then the append
Flush(then) ==
  /\ flushed' = Append(flushed, <<project, line_buffer>>)
  /\ IF ~HasKey(entries, project)
     THEN /\ fexc' = "KeyError" /\ fpc' = "raised"
          /\ UNCHANGED <<entries, line_buffer>>
     ELSE IF process_buffer(line_buffer).exc # "none"
     THEN /\ fexc' = process_buffer(line_buffer).exc /\ fpc' = "raised"
          /\ UNCHANGED <<entries, line_buffer>>
     ELSE /\ entries' = [entries EXCEPT ![project] =
                           Append(@, process_buffer(line_buffer).entry)]
          /\ line_buffer' = <<>>
          /\ fpc' = then
          /\ UNCHANGED fexc

InitRead ==
  /\ f \in SeqsUpTo(Lines, MaxLines)
  /\ n = 0 /\ line_buffer = <<>> /\ project = PyNone /\ entries = <<>>
  /\ fpc = "loop" /\ fexc = "none" /\ flushed = <<>>
  /\ IdleMain /\ IdleRatings /\ IdleRegistry

\* one iteration of "for n, line in enumerate(f)"
ReadLine ==
  /\ fpc = "loop" /\ n < Len(f)
  /\ n' = n + 1
  /\ LET line == strip(f[n + 1])
     IN IF startswith(line, "*")
        THEN LET name == PyStr(lstrip(replace_star(line)))
             IN /\ project' = name
                /\ entries' = IF HasKey(entries, name) THEN entries
                              ELSE entries @@ (name :> <<>>)
                /\ UNCHANGED <<line_buffer, fpc, fexc, flushed>>
        ELSE IF line = <<>> /\ Len(line_buffer) > 0
        THEN Flush("loop") /\ UNCHANGED project
        ELSE IF line # <<>>
        THEN /\ line_buffer' = Append(line_buffer, line)
             /\ UNCHANGED <<project, entries, fpc, fexc, flushed>>
        ELSE UNCHANGED <<line_buffer, project, entries, fpc, fexc, flushed>>
  /\ UNCHANGED <<f, varsMain, varsRatings, varsRegistry>>

\* the end of the file: the buffer is cleaned and entries returned
EndOfFile ==
  /\ fpc = "loop" /\ n = Len(f)
  /\ IF Len(line_buffer) > 0
     THEN Flush("done")
     ELSE /\ fpc' = "done"
          /\ UNCHANGED <<line_buffer, entries, fexc, flushed>>
  /\ UNCHANGED <<f, n, project, varsMain, varsRatings, varsRegistry>>

NextRead == ReadLine \/ EndOfFile

SpecRead == InitRead /\ [][NextRead]_vars

\* ------------------------------------------------ claims on check_ratings

\* at least two candidates, the ratio of the top two scores above the close
\* threshold, and the top candidate a peer review
DiscardApplies(l, c) ==
  /\ Len(l) >= 2
  /\ l[1].score > 0
  /\ l[2].score * 100 > c * l[1].score
  /\ l[1].type = "peer-review"

\* how many candidates at the head of the list are discarded one after another
RECURSIVE Chain(_, _)
Chain(l, c) == IF DiscardApplies(l, c) THEN 1 + Chain(Tail(l), c) ELSE 0

C8_SoleOrError ==
  rpc = "return" =>
    /\ Len(cands) = 1 => (rout.exc = "none" /\ rout.at = 1 /\ rout.ret = cands[1])
    /\ Len(cands) = 0 => rout.exc = "IndexError"
    /\ rout.exc = "none" =>
         (rout.at \in 1..Len(cands) /\ rout.ret = cands[rout.at] /\ rout.ret # NoneObj)

\* the empty list has raised
C8_Witness == rpc = "return" /\ cands = <<>> /\ rout.exc = "IndexError"

\* ------------------------------------------ claims on the registry queries

\* C4: no registry query raises, whatever response is delivered: a
\* non-success status, a body that does not decode or lacks the expected
\* fields give None.
C4_FailsSoftly == (gpc = "return" /\ gresp.net) => gout.exc = "none"

\* ------------------------------------------------------ claims on read_file

\* C10: read_file raises for no file, and every entry flushed lies under the
\* project that was current at its flush, None included.
C10_FiledUnderCurrentProject ==
  /\ fexc = "none"
  /\ \A i \in 1..Len(flushed) :
       /\ HasKey(entries, flushed[i][1])
       /\ \E j \in 1..Len(entries[flushed[i][1]]) :
            entries[flushed[i][1]][j] = process_buffer(flushed[i][2]).entry

====
